---- MODULE Spec2Model ----
(***************************************************************************)
(* Model of the survey form component src/components/Form.vue: the draft   *)
(* (`state`), the validation error map (`errors`), the zod schema, the     *)
(* submit handler onSubmit, setRating and the v-model field bindings.      *)
(*                                                                         *)
(* Encoding of values.  Strings the user picks are TLA+ strings.  An       *)
(* optional number is a sequence: << >> is `undefined`, <<n>> the number   *)
(* n.  The uniqueId string is << >> for "" and <<k>> for the k-th token    *)
(* the identifier generator returned (uuidv4 never repeats a token).       *)
(***************************************************************************)
EXTENDS Integers, Sequences, FiniteSets, TLC

VARIABLES state, errors, emitted, nextId, outcome, threw, edits

vars == <<state, errors, emitted, nextId, outcome, threw, edits>>

(* ------------------------------ bounds -------------------------------- *)
MaxEdits == 4      \* field edits and setRating calls in one run
MaxSubmits == 3    \* identifiers the generator hands out in one run

(* --------------------------- the schema ------------------------------- *)
MinRating == 1
MaxRating == 5

RatingFields ==
  {"qualityOfTeaching", "safety", "location", "socialEvents", "facilities",
   "courseContent", "housingAndAccommodation", "internationalFocus",
   "mentalHealthAndWellnessServices",
   "careerServicesAndInternshipOpportunities"}

\* the keys of z.object({...}) in declaration order: zod checks them in
\* this order and reports the issues in this order
FieldOrder ==
  <<"uniqueId", "schoolName", "sex", "nationality", "currentStudent",
    "yearOfStudy", "nameOfStudy", "qualityOfTeaching", "safety", "location",
    "socialEvents", "facilities", "courseContent", "housingAndAccommodation",
    "internationalFocus", "mentalHealthAndWellnessServices",
    "careerServicesAndInternshipOpportunities", "additionalComments">>

Fields == {FieldOrder[i] : i \in 1..Len(FieldOrder)}

SexEnum == {"male", "female", "prefer not to say", ""}

Undefined == << >>
Num(n) == <<n>>
EmptyString == << >>
Token(k) == <<k>>

Issue(path, message) == [path |-> path, message |-> message]

\* z.string().nonempty(message)
NonEmptyIssues(path, v, message) ==
  IF v = "" THEN <<Issue(path, message)>> ELSE << >>

\* z.number().min(1).max(5).optional(): undefined passes; otherwise every
\* check runs and each failed check adds its own issue
RatingIssues(path, v) ==
  IF v = Undefined THEN << >>
  ELSE (IF v[1] < MinRating
          THEN <<Issue(path, "Number must be greater than or equal to 1")>>
          ELSE << >>)
       \o
       (IF v[1] > MaxRating
          THEN <<Issue(path, "Number must be less than or equal to 5")>>
          ELSE << >>)

\* z.enum([...]).optional()
SexIssues(path, v) ==
  IF v \in SexEnum THEN << >> ELSE <<Issue(path, "Invalid enum value")>>

\* the issues one key of the schema reports for the value v
FieldIssues(f, v) ==
  IF f = "schoolName" THEN NonEmptyIssues(f, v, "School name is required")
  ELSE IF f = "nationality" THEN NonEmptyIssues(f, v, "Nationality is required")
  ELSE IF f = "sex" THEN SexIssues(f, v)
  ELSE IF f \in RatingFields THEN RatingIssues(f, v)
  ELSE << >>  \* uniqueId, yearOfStudy, nameOfStudy, additionalComments:
              \* z.string().optional(); currentStudent: z.boolean()

RECURSIVE IssuesFrom(_, _)
IssuesFrom(d, i) ==
  IF i > Len(FieldOrder) THEN << >>
  ELSE FieldIssues(FieldOrder[i], d[FieldOrder[i]]) \o IssuesFrom(d, i + 1)

\* variants of SchemaIssues: a content rule on uniqueId that only some
\* generated tokens meet; yearOfStudy required of a current student
SchemaIssuesIdRule(d) ==
  (IF d.uniqueId # EmptyString /\ d.uniqueId[1] % 2 = 1
     THEN <<Issue("uniqueId", "Invalid")>> ELSE << >>)
  \o IssuesFrom(d, 1)
SchemaIssuesStudyRequired(d) ==
  IssuesFrom(d, 1)
  \o (IF d.currentStudent /\ d.yearOfStudy = ""
        THEN <<Issue("yearOfStudy", "Required")>> ELSE << >>)

\* schema.parse(d): the issues of the ZodError it throws, << >> when it
\* returns
SchemaIssues(d) == IssuesFrom(d, 1)

(* ------------------------- the error map ------------------------------ *)
EmptyMap == [p \in {} |-> ""]

\* acc[path] = message
Put(acc, path, message) ==
  [p \in (DOMAIN acc) \cup {path} |-> IF p = path THEN message ELSE acc[p]]

RECURSIVE Reduce(_, _, _)
Reduce(acc, issues, i) ==
  IF i > Len(issues) THEN acc
  ELSE Reduce(Put(acc, issues[i].path, issues[i].message), issues, i + 1)

\* error.errors.reduce((acc, curr) => {...}, {})
ReduceErrors(issues) == Reduce(EmptyMap, issues, 1)

(* ------------------------------ state --------------------------------- *)
InitialState ==
  [uniqueId |-> EmptyString, schoolName |-> "", sex |-> "", nationality |-> "",
   currentStudent |-> FALSE, yearOfStudy |-> "", nameOfStudy |-> "",
   qualityOfTeaching |-> Undefined, safety |-> Undefined,
   location |-> Undefined, socialEvents |-> Undefined,
   facilities |-> Undefined, courseContent |-> Undefined,
   housingAndAccommodation |-> Undefined, internationalFocus |-> Undefined,
   mentalHealthAndWellnessServices |-> Undefined,
   careerServicesAndInternshipOpportunities |-> Undefined,
   additionalComments |-> ""]

Init ==
  /\ state = InitialState
  /\ errors = EmptyMap
  /\ emitted = << >>
  /\ nextId = 1
  /\ outcome = "idle"
  /\ threw = FALSE
  /\ edits = 0

(* ------------------------------ inputs -------------------------------- *)
\* setRating takes any number: the stars of the template pass 1..5, and the
\* values next to the range stand for a value written past the stars
RatingInputs == {MinRating - 1, MinRating, MaxRating, MaxRating + 1}
SchoolOptions == {"", "Acme University"}
NationalityOptions == {"Dutch"}
SexOptions == {"female"}
YearOptions == {"1"}
NameInputs == {"Physics"}
CommentInputs == {"Great"}

Rated(d) == {f \in RatingFields : d[f] # Undefined}

\* an edit of the draft outside onSubmit: nothing but the draft changes
Edited ==
  /\ edits < MaxEdits
  /\ edits' = edits + 1
  /\ outcome' = "idle"
  /\ UNCHANGED <<errors, emitted, nextId, threw>>

(* ----------------------------- operations ----------------------------- *)
\* variant of setRating: the value clamped into the schema's range
setRatingClamped(field, value) ==
  /\ Rated(state) \subseteq {field}
  /\ state' = [state EXCEPT ![field] =
                 Num(IF value < MinRating THEN MinRating
                     ELSE IF value > MaxRating THEN MaxRating ELSE value)]
  /\ Edited

setRating(field, value) ==
  /\ Rated(state) \subseteq {field}   \* one run rates one of the ten fields
  /\ state' = [state EXCEPT ![field] = Num(value)]
  /\ Edited

setSchoolName(v) == state' = [state EXCEPT !.schoolName = v] /\ Edited
setSex(v) == state' = [state EXCEPT !.sex = v] /\ Edited
setNationality(v) == state' = [state EXCEPT !.nationality = v] /\ Edited
toggleCurrentStudent ==
  state' = [state EXCEPT !.currentStudent = ~state.currentStudent] /\ Edited
setYearOfStudy(v) ==
  state.currentStudent /\ state' = [state EXCEPT !.yearOfStudy = v] /\ Edited
setNameOfStudy(v) ==
  state.currentStudent /\ state' = [state EXCEPT !.nameOfStudy = v] /\ Edited
setAdditionalComments(v) ==
  state' = [state EXCEPT !.additionalComments = v] /\ Edited

\* variants of WithId: the assignment left out; the form reset with it
WithIdNotAssigned(d, id) == d
WithIdResetsComments(d, id) ==
  [d EXCEPT !.uniqueId = id, !.additionalComments = ""]

\* state.value.uniqueId = uniqueID
WithId(d, id) == [d EXCEPT !.uniqueId = id]

\* what leaves the try block: "none", or the kind of the exception thrown
TryResult(generatorOk, issues) ==
  IF ~generatorOk THEN "Error"
  ELSE IF issues # << >> THEN "ZodError"
  ELSE "none"

\* variant of EmittedAfter: the emit moved out of the try, after the catch
EmittedAlways(em, exc, data) ==
  IF exc = "Error" THEN em ELSE Append(em, data)

\* emit("formSubmitted", validatedData) is the last statement of the try
EmittedAfter(em, exc, data) == IF exc = "none" THEN Append(em, data) ELSE em

\* variant of ErrorsAfter: the reduce seeded with the previous map
ErrorsAfterMerging(old, exc, issues) ==
  IF exc = "ZodError" THEN Reduce(old, issues, 1) ELSE old

\* the catch block assigns errors.value only for a ZodError; no other
\* statement of onSubmit writes it
ErrorsAfter(old, exc, issues) ==
  IF exc = "ZodError" THEN ReduceErrors(issues) ELSE old

\* catch (error) { if (error instanceof z.ZodError) {...} }: every
\* exception is caught and none is thrown again
CatchRethrows(exc) == FALSE

OutcomeOf(exc) ==
  IF exc = "none" THEN "emitted"
  ELSE IF exc = "ZodError" THEN "invalid"
  ELSE "fault"

onSubmit(generatorOk) ==
  /\ nextId <= MaxSubmits
  /\ LET id == Token(nextId)
         draft == IF generatorOk THEN WithId(state, id) ELSE state
         issues == IF generatorOk THEN SchemaIssues(draft) ELSE << >>
         exc == TryResult(generatorOk, issues)
     IN /\ state' = draft
        /\ nextId' = IF generatorOk THEN nextId + 1 ELSE nextId
        /\ emitted' = EmittedAfter(emitted, exc, draft)
        /\ errors' = ErrorsAfter(errors, exc, issues)
        /\ threw' = CatchRethrows(exc)
        /\ outcome' = OutcomeOf(exc)
  /\ UNCHANGED edits

Next ==
  \/ \E f \in RatingFields, v \in RatingInputs : setRating(f, v)
  \/ \E v \in SchoolOptions : setSchoolName(v)
  \/ \E v \in SexOptions : setSex(v)
  \/ \E v \in NationalityOptions : setNationality(v)
  \/ toggleCurrentStudent
  \/ \E v \in YearOptions : setYearOfStudy(v)
  \/ \E v \in NameInputs : setNameOfStudy(v)
  \/ \E v \in CommentInputs : setAdditionalComments(v)
  \/ \E ok \in BOOLEAN : onSubmit(ok)

Spec == Init /\ [][Next]_vars

TypeOK ==
  /\ DOMAIN state = Fields
  /\ DOMAIN errors \subseteq Fields
  /\ outcome \in {"idle", "emitted", "invalid", "fault"}
  /\ nextId \in 1..(MaxSubmits + 1)

(* ------------------ the draft's validity, as specified ---------------- *)
InRange(v) == v # Undefined /\ v[1] >= 1 /\ v[1] <= 5

FailingFields(d) ==
  {f \in {"schoolName", "nationality"} : d[f] = ""}
  \cup {f \in RatingFields : d[f] # Undefined /\ ~InRange(d[f])}

DraftValid(d) == FailingFields(d) = {}

\* the last operation was a submit() that generated an identifier and
\* validated the draft
Validated == outcome \in {"emitted", "invalid"}

UserFields == Fields \ {"uniqueId"}

(* ------------------------------- claims ------------------------------- *)

\* C1: a step is a submit() that validated the draft successfully exactly
\* when the generator returned and the draft (with its new identifier) has
\* no failing field; such a step fires the event exactly once, carrying the
\* draft, and every other step (failed submit, generator fault, edit) fires
\* none, so the events count the successful submits.
C1_EventPerSuccessfulSubmit ==
  [][IF nextId' # nextId /\ DraftValid(state')
       THEN emitted' = Append(emitted, state')
       ELSE emitted' = emitted]_vars

\* a failed submit after a successful one: one event, two validations
C1_Witness == outcome = "invalid" /\ Len(emitted) = 1 /\ nextId >= 3

\* C2: every emitted record has a non-empty uniqueId, the record emitted by
\* the submit just made carries the identifier generated in that submit,
\* and no two emitted records share a uniqueId.
C2_EmittedIdsDistinct ==
  /\ \A i \in 1..Len(emitted) : emitted[i].uniqueId # EmptyString
  /\ \A i, j \in 1..Len(emitted) :
       i # j => emitted[i].uniqueId # emitted[j].uniqueId
  /\ outcome = "emitted" =>
       /\ emitted[Len(emitted)].uniqueId = Token(nextId - 1)
       /\ emitted[Len(emitted)].uniqueId = state.uniqueId

\* two records emitted with a failed submit's identifier consumed between
C2_Witness ==
  /\ Len(emitted) = 2
  /\ emitted[2].uniqueId[1] > emitted[1].uniqueId[1] + 1

\* C3: after a failed submit() the keys of the error map are exactly the
\* failing fields of the draft (all of them, and nothing left from an
\* earlier attempt), each with the message of the field's first violation.
C3_ErrorsAreFailingFields ==
  outcome = "invalid" =>
    /\ DOMAIN errors = FailingFields(state)
    /\ \A f \in DOMAIN errors :
         errors[f] = Head(FieldIssues(f, state[f])).message

\* schoolName, nationality and a rating reported by one failed submit
C3_Witness ==
  /\ outcome = "invalid"
  /\ {"schoolName", "nationality"} \subseteq DOMAIN errors
  /\ \E f \in RatingFields : f \in DOMAIN errors

\* C4: after a successful submit() the error map is empty, and after any
\* validating submit() a key is absent exactly when its field was valid.
C4_ErrorsClearedOnSuccess ==
  /\ outcome = "emitted" => errors = EmptyMap
  /\ Validated =>
       \A f \in Fields : f \notin DOMAIN errors <=> f \notin FailingFields(state)

\* C5: after a submit() of a draft that is valid and holds an in-range
\* rating, the error map has no entry for that rating field; a submit() of
\* a draft holding an out-of-range rating fails with an entry for it.
C5_RatingBounds ==
  \A f \in RatingFields :
    /\ (outcome = "emitted" /\ InRange(state[f])) => f \notin DOMAIN errors
    /\ (Validated /\ state[f] # Undefined /\ ~InRange(state[f])) =>
         (outcome = "invalid" /\ f \in DOMAIN errors)

\* C6: submit() returns normally after a validation failure and exits by
\* the exception after a fault of the identifier generator.
C6_FaultPropagates ==
  /\ outcome = "invalid" => ~threw
  /\ outcome = "fault" => threw

\* C7: a submit() that validates directly after a failed submit(), with no
\* edit between the two, fails again and leaves the same error map, though
\* the draft's uniqueId changed.
C7_RevalidationIdempotent ==
  [][(outcome = "invalid" /\ nextId' # nextId) =>
       /\ outcome' = "invalid"
       /\ errors' = errors
       /\ state'.uniqueId # state.uniqueId]_vars

\* two failed submits of the untouched initial draft
C7_Witness ==
  /\ edits = 0 /\ nextId = 3 /\ outcome = "invalid"
  /\ DOMAIN errors = {"schoolName", "nationality"}

\* C8: a submit() that generates an identifier writes it into uniqueId,
\* whether validation then passes or fails, and changes no other field.
C8_SubmitWritesOnlyUniqueId ==
  [][nextId' # nextId =>
       /\ state'.uniqueId = Token(nextId)
       /\ state'.uniqueId # state.uniqueId
       /\ \A f \in UserFields : state'[f] = state[f]]_vars

\* a failed submit that left user input and the new identifier in the draft
C8_Witness ==
  /\ outcome = "invalid"
  /\ state.uniqueId # EmptyString
  /\ state.schoolName # ""
  /\ state.additionalComments # ""

\* C9: a setRating(field, value) that changes the field stores the value as
\* given, unclamped, and changes nothing else; every step that is no submit() changes at most
\* one field of the draft, never uniqueId, and leaves the error map and the
\* emitted events alone.
C9_EditsLeaveErrors ==
  [][/\ \A f \in RatingFields :
          state'[f] # state[f] =>
            \A v \in RatingInputs :
              setRating(f, v) =>
                /\ state'[f] = Num(v)
                /\ \A g \in Fields \ {f} : state'[g] = state[g]
                /\ errors' = errors
     /\ outcome' = "idle" =>
          /\ errors' = errors
          /\ emitted' = emitted
          /\ state'.uniqueId = state.uniqueId
          /\ Cardinality({g \in Fields : state'[g] # state[g]}) <= 1]_vars

\* an out-of-range rating stored after the error map was last written
C9_Witness ==
  /\ outcome = "idle"
  /\ errors # EmptyMap
  /\ \E f \in RatingFields :
       /\ state[f] # Undefined /\ ~InRange(state[f])
       /\ f \notin DOMAIN errors

\* C10: a validated draft with non-empty schoolName and nationality and
\* every rating unset or in range is emitted, whatever currentStudent,
\* yearOfStudy and nameOfStudy hold.
C10_StudyFieldsNotRequired ==
  (/\ Validated
   /\ state.schoolName # ""
   /\ state.nationality # ""
   /\ \A f \in RatingFields : state[f] = Undefined \/ InRange(state[f]))
  => /\ outcome = "emitted"
     /\ emitted[Len(emitted)] = state

\* a current student's draft emitted with yearOfStudy and nameOfStudy empty
C10_Witness ==
  /\ outcome = "emitted"
  /\ state.currentStudent
  /\ state.yearOfStudy = ""
  /\ state.nameOfStudy = ""
====
